---- MODULE Spec2Model ----
(***************************************************************************)
(* A model of the harfrust FFI boundary layer (src/rust/src/lib.rs).       *)
(*                                                                         *)
(* The host owns three kinds of heap objects through opaque handles: text  *)
(* buffers (HarfRustBuffer), fonts (HarfRustFont) and shaping results      *)
(* (HarfRustGlyphBuffer).  Every extern "C" entry point is one action.     *)
(* The host is well behaved: it passes either the null handle or a handle  *)
(* that is live; a freed or consumed handle is never passed again.         *)
(*                                                                         *)
(* The shaping engine itself (the harfrust crate) is not part of the       *)
(* repository; the operators of the section "external engine" state the    *)
(* contract of the engine calls the wrapper makes.                         *)
(***************************************************************************)
EXTENDS Integers, Sequences, FiniteSets, TLC

VARIABLES
    bufs,      \* live HarfRustBuffer objects: handle -> UnicodeBuffer
    fonts,     \* live HarfRustFont objects: handle -> [data]
    glyphs,    \* live HarfRustGlyphBuffer objects: handle -> [inner, infos_cache, positions_cache]
    ret,       \* the last call: entry point, handles passed, value returned
    released,  \* the objects the last call released (Box dropped), in order
    shaped,    \* what the last call handed to the engine's shape, if it got there
    thr        \* the execution contexts that run harfrust_shape_full step by step

vars == <<bufs, fonts, glyphs, ret, released, shaped, thr>>

\* ---------------------------------------------------------------- bounds

\* The longest buffer content the model follows.
MaxLen == 2

\* ---------------------------------------------------------------- handles

NULL == 0

\* The addresses the allocator has for text objects (buffers and shaping results):
\* one for each execution context, the sequential host being one.
TextHandles == IF thr = <<>> THEN {1} ELSE DOMAIN thr

FontHandles == {1}

\* The allocator returns an address that is not in use (Box::new).
FreeText(b, g) == TextHandles \ (DOMAIN b \cup DOMAIN g)

FreeFont == FontHandles \ DOMAIN fonts

Put(heap, h, obj) == [x \in DOMAIN heap \cup {h} |-> IF x = h THEN obj ELSE heap[x]]

Drop(heap, h) == [x \in DOMAIN heap \ {h} |-> heap[x]]

\* ---------------------------------------------------------------- sequences

RECURSIVE Reverse(_)
Reverse(s) == IF s = <<>> THEN <<>> ELSE Append(Reverse(Tail(s)), Head(s))

\* ---------------------------------------------------------------- direction

\* harfrust::Direction
EngineDirections == {"Invalid", "LeftToRight", "RightToLeft", "TopToBottom", "BottomToTop"}

\* The discriminants of HarfRustDirection.
DirectionCodes == {0, 4, 5, 6, 7}

\* impl From<harfrust::Direction> for HarfRustDirection
DirFromEngine(dir) ==
    CASE dir = "Invalid" -> 0
      [] dir = "LeftToRight" -> 4
      [] dir = "RightToLeft" -> 5
      [] dir = "TopToBottom" -> 6
      [] dir = "BottomToTop" -> 7

\* DirToEngine with the two vertical directions taken for each other.
DirToEngine_VerticalSwapped(code) ==
    CASE code = 0 -> "Invalid"
      [] code = 4 -> "LeftToRight"
      [] code = 5 -> "RightToLeft"
      [] code = 6 -> "BottomToTop"
      [] code = 7 -> "TopToBottom"

\* impl From<HarfRustDirection> for harfrust::Direction
DirToEngine(code) ==
    CASE code = 0 -> "Invalid"
      [] code = 4 -> "LeftToRight"
      [] code = 5 -> "RightToLeft"
      [] code = 6 -> "TopToBottom"
      [] code = 7 -> "BottomToTop"

\* ---------------------------------------------------------------- tags

\* u32::to_be_bytes
ToBeBytes(n) == << (n \div 16777216) % 256, (n \div 65536) % 256, (n \div 256) % 256, n % 256 >>

\* u32::from_be_bytes
FromBeBytes(b) == b[1] * 16777216 + b[2] * 65536 + b[3] * 256 + b[4]

IsUpper(b) == b >= 65 /\ b <= 90

IsLower(b) == b >= 97 /\ b <= 122

ToUpper(b) == IF IsLower(b) THEN b - 32 ELSE b

ToLower(b) == IF IsUpper(b) THEN b + 32 ELSE b

\* "Latn", "Hebr", "Zzzz" (unknown), "liga", "wght" as big-endian u32
TagLatn == FromBeBytes(<<76, 97, 116, 110>>)

TagHebr == FromBeBytes(<<72, 101, 98, 114>>)

TagZzzz == FromBeBytes(<<90, 122, 122, 122>>)

TagLiga == FromBeBytes(<<108, 105, 103, 97>>)

TagWght == FromBeBytes(<<119, 103, 104, 116>>)

\* ---------------------------------------------------------------- UTF-8

IsCont(b) == b >= 128 /\ b <= 191

\* The length of the UTF-8 sequence that starts at s[i], 0 when none is valid there
\* (core::str::from_utf8, as used by CStr::to_str).
Utf8SeqLen(s, i) ==
    LET b == s[i]
        n == Len(s)
        c(k) == i + k <= n /\ IsCont(s[i + k])
    IN  IF b < 128 THEN 1
        ELSE IF b >= 194 /\ b <= 223 /\ c(1) THEN 2
        ELSE IF b = 224 /\ i + 1 <= n /\ s[i + 1] >= 160 /\ s[i + 1] <= 191 /\ c(2) THEN 3
        ELSE IF b = 237 /\ i + 1 <= n /\ s[i + 1] >= 128 /\ s[i + 1] <= 159 /\ c(2) THEN 3
        ELSE IF b >= 225 /\ b <= 239 /\ b # 237 /\ c(1) /\ c(2) THEN 3
        ELSE IF b = 240 /\ i + 1 <= n /\ s[i + 1] >= 144 /\ s[i + 1] <= 191 /\ c(2) /\ c(3) THEN 4
        ELSE IF b = 244 /\ i + 1 <= n /\ s[i + 1] >= 128 /\ s[i + 1] <= 143 /\ c(2) /\ c(3) THEN 4
        ELSE IF b >= 241 /\ b <= 243 /\ c(1) /\ c(2) /\ c(3) THEN 4
        ELSE 0

Utf8Scalar(s, i, k) ==
    CASE k = 1 -> s[i]
      [] k = 2 -> (s[i] - 192) * 64 + (s[i + 1] - 128)
      [] k = 3 -> (s[i] - 224) * 4096 + (s[i + 1] - 128) * 64 + (s[i + 2] - 128)
      [] k = 4 -> (s[i] - 240) * 262144 + (s[i + 1] - 128) * 4096
                    + (s[i + 2] - 128) * 64 + (s[i + 3] - 128)

RECURSIVE Utf8ValidFrom(_, _)
Utf8ValidFrom(s, i) ==
    IF i > Len(s) THEN TRUE
    ELSE LET k == Utf8SeqLen(s, i) IN k # 0 /\ Utf8ValidFrom(s, i + k)

\* CStr::to_str succeeds
Utf8Valid(s) == Utf8ValidFrom(s, 1)

\* str::char_indices: the chars of a valid string with their byte offsets.
RECURSIVE CharIndicesFrom(_, _)
CharIndicesFrom(s, i) ==
    IF i > Len(s) THEN <<>>
    ELSE LET k == Utf8SeqLen(s, i)
         IN  <<[codepoint |-> Utf8Scalar(s, i, k), cluster |-> i - 1]>>
                \o CharIndicesFrom(s, i + k)

CharIndices(s) == CharIndicesFrom(s, 1)

\* ---------------------------------------------------------------- UTF-16

IsHighSurrogate(u) == u >= 55296 /\ u <= 56319

IsLowSurrogate(u) == u >= 56320 /\ u <= 57343

ReplacementCharacter == 65533

\* char::len_utf16
LenUtf16(ch) == IF ch >= 65536 THEN 2 ELSE 1

\* std::char::decode_utf16 followed by the loop of harfrust_buffer_add_utf16:
\* the (char, cluster) pairs the loop adds, cluster starting at `cluster`.
RECURSIVE DecodeUtf16From(_, _, _)
DecodeUtf16From(u, i, cluster) ==
    IF i > Len(u) THEN <<>>
    ELSE LET paired == IsHighSurrogate(u[i]) /\ i + 1 <= Len(u) /\ IsLowSurrogate(u[i + 1])
             ch == IF paired
                   THEN 65536 + (u[i] - 55296) * 1024 + (u[i + 1] - 56320)
                   ELSE IF IsHighSurrogate(u[i]) \/ IsLowSurrogate(u[i])
                        THEN ReplacementCharacter
                        ELSE u[i]
         IN  <<[codepoint |-> ch, cluster |-> cluster]>>
                \o DecodeUtf16From(u, IF paired THEN i + 2 ELSE i + 1, cluster + LenUtf16(ch))

\* ---------------------------------------------------------------- external engine: buffers

\* harfrust::Script: the Unicode script property of a char, as an ISO 15924 tag,
\* for the Latin letters and the Hebrew block; everything else is Common here.
ScriptCommon == FromBeBytes(<<90, 121, 121, 121>>)

ScriptOfChar(cp) ==
    IF IsUpper(cp) \/ IsLower(cp) THEN TagLatn
    ELSE IF cp >= 1424 /\ cp <= 1535 THEN TagHebr
    ELSE ScriptCommon

\* harfrust::Direction::from_script: the horizontal direction of a script.
DirectionFromScript(script) == IF script = TagHebr THEN "RightToLeft" ELSE "LeftToRight"

\* Option<Script>::None and Option<Language>::None
NoScript == 0

NoLanguage == <<>>

\* harfrust::UnicodeBuffer::new
NewUnicodeBuffer ==
    [info |-> <<>>, direction |-> "Invalid", script |-> NoScript, language |-> NoLanguage]

\* harfrust::UnicodeBuffer::add, once per element of `items`
AddAll(ub, items) == [ub EXCEPT !.info = @ \o items]

\* harfrust::UnicodeBuffer::push_str: each char with its byte offset as cluster
PushStr(ub, str) == AddAll(ub, CharIndices(str))

\* harfrust::UnicodeBuffer::clear: the content and the segment properties are reset
ClearUnicodeBuffer(ub) == NewUnicodeBuffer

\* harfrust::UnicodeBuffer::script: the script, UNKNOWN ("Zzzz") when none is set
ScriptOrUnknown(ub) == IF ub.script = NoScript THEN TagZzzz ELSE ub.script

\* The first char of the content whose script is not Common, Inherited or Unknown.
RECURSIVE FirstRealScript(_)
FirstRealScript(info) ==
    IF info = <<>> THEN NoScript
    ELSE IF ScriptOfChar(Head(info).codepoint) # ScriptCommon
         THEN ScriptOfChar(Head(info).codepoint)
         ELSE FirstRealScript(Tail(info))

\* harfrust::UnicodeBuffer::guess_segment_properties: a script that is not set is
\* taken from the content, a direction that is not set from the script (left to
\* right when there is none); the language is left alone.
GuessSegmentProperties(ub) ==
    LET script == IF ub.script = NoScript THEN FirstRealScript(ub.info) ELSE ub.script
        direction == IF ub.direction # "Invalid" THEN ub.direction
                     ELSE IF script # NoScript THEN DirectionFromScript(script)
                     ELSE "LeftToRight"
    IN  [ub EXCEPT !.script = script, !.direction = direction]

\* harfrust::Script::from_iso15924_tag: None for the null tag; otherwise the case
\* is adjusted to one capital and three small letters, and a tag that is not four
\* letters becomes UNKNOWN.
ClearBit5(b) == IF (b \div 32) % 2 = 1 THEN b - 32 ELSE b

SetBit5(b) == IF (b \div 32) % 2 = 1 THEN b ELSE b + 32

ScriptFromIso15924Tag(tag) ==
    IF tag = 0 THEN NoScript
    ELSE LET b == ToBeBytes(tag)
             adj == <<ClearBit5(b[1]), SetBit5(b[2]), SetBit5(b[3]), SetBit5(b[4])>>
         IN  IF /\ adj[1] \div 32 = 2
                /\ \A i \in 2..4 : adj[i] \div 32 = 3
             THEN FromBeBytes(adj)
             ELSE TagZzzz

\* <harfrust::Language as FromStr>::from_str: an empty string is rejected, any
\* other is kept in lower case.
LanguageParses(str) == str # <<>>

LanguageFromStr(str) == [i \in 1..Len(str) |-> ToLower(str[i])]

\* ---------------------------------------------------------------- external engine: fonts

\* Font data is a sequence of chunks: a header chunk ("sfnt" for a single font,
\* "ttcf" for a collection) followed by one chunk per face ("face", or "vface" for
\* a face with a weight axis).
Faces == {"face", "vface"}

NoFace == "none"

\* harfrust::FontRef::new: the data must be a single font, not a collection
FontRefNew(data) ==
    IF Len(data) >= 2 /\ data[1] = "sfnt" /\ data[2] \in Faces
    THEN [ok |-> TRUE, face |-> data[2]]
    ELSE [ok |-> FALSE, face |-> NoFace]

\* harfrust::FontRef::from_index: face `index` of a collection, or a single font
\* with index 0
FontRefFromIndex(data, index) ==
    IF data # <<>> /\ data[1] = "ttcf"
    THEN IF index + 2 <= Len(data) /\ data[index + 2] \in Faces
         THEN [ok |-> TRUE, face |-> data[index + 2]]
         ELSE [ok |-> FALSE, face |-> NoFace]
    ELSE IF index = 0 THEN FontRefNew(data) ELSE [ok |-> FALSE, face |-> NoFace]

\* harfrust::Shaper::units_per_em
UnitsPerEm(face) == IF face = "vface" THEN 2048 ELSE 1000

\* harfrust::ShaperInstance::from_variations: the coordinates of the axes the face
\* has; a face without a weight axis ignores the setting.
NoInstance == <<>>

InstanceFromVariations(face, variations) ==
    IF face = "vface"
    THEN SelectSeq(variations, LAMBDA v : v.tag = TagWght)
    ELSE <<>>

\* ---------------------------------------------------------------- external engine: shaping

\* The glyph of a char: Latin letters are mapped, everything else is .notdef.
Cmap(cp) == IF IsUpper(cp) \/ IsLower(cp) THEN cp - 28 ELSE 0

LigatureFF == 300

LigaDisabled(features) ==
    \E i \in 1..Len(features) : features[i].tag = TagLiga /\ features[i].value = 0

\* Substitution: two adjacent "f" form one ligature glyph unless "liga" is off.
RECURSIVE Substitute(_, _)
Substitute(info, liga) ==
    IF info = <<>> THEN <<>>
    ELSE IF /\ liga /\ Len(info) >= 2
            /\ info[1].codepoint = 102 /\ info[2].codepoint = 102
         THEN <<[glyph_id |-> LigatureFF, cluster |-> info[1].cluster]>>
                 \o Substitute(Tail(Tail(info)), liga)
         ELSE <<[glyph_id |-> Cmap(info[1].codepoint), cluster |-> info[1].cluster]>>
                 \o Substitute(Tail(info), liga)

Advance(glyph_id, instance) ==
    (IF glyph_id = 0 THEN 600 ELSE 500)
        + (IF instance # NoInstance /\ instance[Len(instance)].value >= 700 THEN 50 ELSE 0)

PositionOf(glyph_id, direction, instance) ==
    IF direction \in {"TopToBottom", "BottomToTop"}
    THEN [x_advance |-> 0, y_advance |-> 0 - Advance(glyph_id, instance),
          x_offset |-> 0 - 250, y_offset |-> 0]
    ELSE [x_advance |-> Advance(glyph_id, instance), y_advance |-> 0,
          x_offset |-> 0, y_offset |-> 0]

\* harfrust::Shaper::shape: the GlyphBuffer for a buffer, a face, an optional
\* variation instance and a feature list.  The two output sequences have the same
\* length; backward directions give the glyphs in reverse order.
Shape(face, instance, ub, features) ==
    LET gs == Substitute(ub.info, ~LigaDisabled(features))
        ordered == IF ub.direction \in {"RightToLeft", "BottomToTop"} THEN Reverse(gs) ELSE gs
    IN  [info |-> ordered,
         pos |-> [i \in 1..Len(ordered) |->
                     PositionOf(ordered[i].glyph_id, ub.direction, instance)]]

\* harfrust::GlyphBuffer::len
GlyphBufferLen(gb) == Len(gb.info)

\* harfrust::GlyphBuffer::clear: the storage comes back as an empty UnicodeBuffer
GlyphBufferClear(gb) == NewUnicodeBuffer

\* ---------------------------------------------------------------- calls

\* A pointer argument: null, or the address of the given elements.
NullPtr == [null |-> TRUE, elems |-> <<>>]

PtrTo(elems) == [null |-> FALSE, elems |-> elems]

\* What the host sees of a call: the entry point, the handles it passed (the font
\* of a shape call in `font`) and the value returned (0 for a function returning
\* nothing).
Returned(op, h, font, val) == [op |-> op, h |-> h, font |-> font, val |-> val]

Released(kind, h) == [kind |-> kind, h |-> h]

\* The arguments of a call of the engine's shape.
EngineCall(face, instance, buffer_inner, features) ==
    [called |-> TRUE, face |-> face, instance |-> instance, buffer |-> buffer_inner,
     features |-> features]

NotShaped ==
    [called |-> FALSE, face |-> NoFace, instance |-> NoInstance, buffer |-> NewUnicodeBuffer,
     features |-> <<>>]

\* A call that does not get to the engine's shape.
NoShaping == shaped' = NotShaped

\* A call that touches no object.
NoEffect == UNCHANGED <<bufs, fonts, glyphs, thr>> /\ NoShaping /\ released' = <<>>

\* ---------------------------------------------------------------- buffer functions

harfrust_buffer_new ==
    /\ \E h \in FreeText(bufs, glyphs) :
          /\ bufs' = Put(bufs, h, NewUnicodeBuffer)
          /\ ret' = Returned("harfrust_buffer_new", NULL, NULL, h)
    /\ released' = <<>>
    /\ UNCHANGED <<fonts, glyphs, thr>> /\ NoShaping

\* harfrust_buffer_add_str with the two null checks in the other order.
harfrust_buffer_add_str_TextFirst(buffer, text) ==
    IF text.null THEN
        /\ ret' = Returned("harfrust_buffer_add_str", buffer, NULL, -2)
        /\ NoEffect
    ELSE IF buffer = NULL THEN
        /\ ret' = Returned("harfrust_buffer_add_str", buffer, NULL, -1)
        /\ NoEffect
    ELSE IF ~Utf8Valid(text.elems) THEN
        /\ ret' = Returned("harfrust_buffer_add_str", buffer, NULL, -3)
        /\ NoEffect
    ELSE
        /\ Len(bufs[buffer].info) + Len(CharIndices(text.elems)) <= MaxLen
        /\ bufs' = [bufs EXCEPT ![buffer] = PushStr(@, text.elems)]
        /\ ret' = Returned("harfrust_buffer_add_str", buffer, NULL, 0)
        /\ released' = <<>>
        /\ UNCHANGED <<fonts, glyphs, thr>> /\ NoShaping

\* harfrust_buffer_add_str that adds one item for each byte of the text.
harfrust_buffer_add_str_PerByte(buffer, text) ==
    IF buffer = NULL THEN
        /\ ret' = Returned("harfrust_buffer_add_str", buffer, NULL, -1)
        /\ NoEffect
    ELSE IF text.null THEN
        /\ ret' = Returned("harfrust_buffer_add_str", buffer, NULL, -2)
        /\ NoEffect
    ELSE IF ~Utf8Valid(text.elems) THEN
        /\ ret' = Returned("harfrust_buffer_add_str", buffer, NULL, -3)
        /\ NoEffect
    ELSE
        /\ Len(bufs[buffer].info) + Len(text.elems) <= MaxLen
        /\ bufs' = [bufs EXCEPT ![buffer] =
                        AddAll(@, [i \in 1..Len(text.elems) |->
                                      [codepoint |-> text.elems[i], cluster |-> i - 1]])]
        /\ ret' = Returned("harfrust_buffer_add_str", buffer, NULL, 0)
        /\ released' = <<>>
        /\ UNCHANGED <<fonts, glyphs, thr>> /\ NoShaping

harfrust_buffer_add_str(buffer, text) ==
    IF buffer = NULL THEN
        /\ ret' = Returned("harfrust_buffer_add_str", buffer, NULL, -1)
        /\ NoEffect
    ELSE IF text.null THEN
        /\ ret' = Returned("harfrust_buffer_add_str", buffer, NULL, -2)
        /\ NoEffect
    ELSE IF ~Utf8Valid(text.elems) THEN
        /\ ret' = Returned("harfrust_buffer_add_str", buffer, NULL, -3)
        /\ NoEffect
    ELSE
        /\ Len(bufs[buffer].info) + Len(CharIndices(text.elems)) <= MaxLen
        /\ bufs' = [bufs EXCEPT ![buffer] = PushStr(@, text.elems)]
        /\ ret' = Returned("harfrust_buffer_add_str", buffer, NULL, 0)
        /\ released' = <<>>
        /\ UNCHANGED <<fonts, glyphs, thr>> /\ NoShaping

\* harfrust_buffer_add_utf16 that counts the cluster up by one for every char.
harfrust_buffer_add_utf16_ClusterPerChar(buffer, text, len) ==
    IF buffer = NULL THEN
        /\ ret' = Returned("harfrust_buffer_add_utf16", buffer, NULL, -1)
        /\ NoEffect
    ELSE IF text.null \/ len < 0 THEN
        /\ ret' = Returned("harfrust_buffer_add_utf16", buffer, NULL, -2)
        /\ NoEffect
    ELSE
        LET slice == SubSeq(text.elems, 1, len)
            decoded == DecodeUtf16From(slice, 1, 0)
            added == [k \in 1..Len(decoded) |-> [decoded[k] EXCEPT !.cluster = k - 1]]
        IN  /\ Len(bufs[buffer].info) + Len(added) <= MaxLen
            /\ bufs' = [bufs EXCEPT ![buffer] = AddAll(@, added)]
            /\ ret' = Returned("harfrust_buffer_add_utf16", buffer, NULL, 0)
            /\ released' = <<>>
            /\ UNCHANGED <<fonts, glyphs, thr>> /\ NoShaping

\* harfrust_buffer_add_utf16 that takes a negative length for an empty text.
harfrust_buffer_add_utf16_NegativeIsEmpty(buffer, text, len) ==
    IF buffer = NULL THEN
        /\ ret' = Returned("harfrust_buffer_add_utf16", buffer, NULL, -1)
        /\ NoEffect
    ELSE IF text.null THEN
        /\ ret' = Returned("harfrust_buffer_add_utf16", buffer, NULL, -2)
        /\ NoEffect
    ELSE
        LET slice == SubSeq(text.elems, 1, len)
            added == DecodeUtf16From(slice, 1, 0)
        IN  /\ Len(bufs[buffer].info) + Len(added) <= MaxLen
            /\ bufs' = [bufs EXCEPT ![buffer] = AddAll(@, added)]
            /\ ret' = Returned("harfrust_buffer_add_utf16", buffer, NULL, 0)
            /\ released' = <<>>
            /\ UNCHANGED <<fonts, glyphs, thr>> /\ NoShaping

\* `text` points to at least `len` units when len >= 0 (slice::from_raw_parts).
harfrust_buffer_add_utf16(buffer, text, len) ==
    IF buffer = NULL THEN
        /\ ret' = Returned("harfrust_buffer_add_utf16", buffer, NULL, -1)
        /\ NoEffect
    ELSE IF text.null \/ len < 0 THEN
        /\ ret' = Returned("harfrust_buffer_add_utf16", buffer, NULL, -2)
        /\ NoEffect
    ELSE
        LET slice == SubSeq(text.elems, 1, len)
            added == DecodeUtf16From(slice, 1, 0)
        IN  /\ Len(bufs[buffer].info) + Len(added) <= MaxLen
            /\ bufs' = [bufs EXCEPT ![buffer] = AddAll(@, added)]
            /\ ret' = Returned("harfrust_buffer_add_utf16", buffer, NULL, 0)
            /\ released' = <<>>
            /\ UNCHANGED <<fonts, glyphs, thr>> /\ NoShaping

harfrust_buffer_len(buffer) ==
    /\ ret' = Returned("harfrust_buffer_len", buffer, NULL,
                       IF buffer = NULL THEN -1 ELSE Len(bufs[buffer].info))
    /\ NoEffect

\* harfrust_buffer_clear that gives the buffer object back to the allocator.
harfrust_buffer_clear_Free(buffer) ==
    /\ ret' = Returned("harfrust_buffer_clear", buffer, NULL, 0)
    /\ IF buffer = NULL
       THEN NoEffect
       ELSE /\ bufs' = Drop(bufs, buffer)
            /\ released' = <<Released("buffer", buffer)>>
            /\ UNCHANGED <<fonts, glyphs, thr>> /\ NoShaping

harfrust_buffer_clear(buffer) ==
    /\ ret' = Returned("harfrust_buffer_clear", buffer, NULL, 0)
    /\ IF buffer = NULL
       THEN NoEffect
       ELSE /\ bufs' = [bufs EXCEPT ![buffer] = ClearUnicodeBuffer(@)]
            /\ released' = <<>>
            /\ UNCHANGED <<fonts, glyphs, thr>> /\ NoShaping

harfrust_buffer_free(buffer) ==
    /\ ret' = Returned("harfrust_buffer_free", buffer, NULL, 0)
    /\ IF buffer # NULL
       THEN /\ bufs' = Drop(bufs, buffer)
            /\ released' = <<Released("buffer", buffer)>>
            /\ UNCHANGED <<fonts, glyphs, thr>> /\ NoShaping
       ELSE NoEffect

\* ---------------------------------------------------------------- buffer configuration functions

harfrust_buffer_set_direction(buffer, direction) ==
    /\ ret' = Returned("harfrust_buffer_set_direction", buffer, NULL, 0)
    /\ IF buffer = NULL
       THEN NoEffect
       ELSE /\ bufs' = [bufs EXCEPT ![buffer].direction = DirToEngine(direction)]
            /\ released' = <<>>
            /\ UNCHANGED <<fonts, glyphs, thr>> /\ NoShaping

harfrust_buffer_get_direction(buffer) ==
    /\ ret' = Returned("harfrust_buffer_get_direction", buffer, NULL,
                       IF buffer = NULL THEN 0 ELSE DirFromEngine(bufs[buffer].direction))
    /\ NoEffect

harfrust_buffer_set_script(buffer, script_tag) ==
    /\ ret' = Returned("harfrust_buffer_set_script", buffer, NULL, 0)
    /\ IF buffer = NULL
       THEN NoEffect
       ELSE LET tag == FromBeBytes(ToBeBytes(script_tag))
                script == ScriptFromIso15924Tag(tag)
            IN  /\ bufs' = IF script # NoScript
                           THEN [bufs EXCEPT ![buffer].script = script]
                           ELSE bufs
                /\ released' = <<>>
                /\ UNCHANGED <<fonts, glyphs, thr>> /\ NoShaping

harfrust_buffer_get_script(buffer) ==
    /\ ret' = Returned("harfrust_buffer_get_script", buffer, NULL,
                       IF buffer = NULL
                       THEN 0
                       ELSE FromBeBytes(ToBeBytes(ScriptOrUnknown(bufs[buffer]))))
    /\ NoEffect

\* harfrust_buffer_set_language that takes the old language away before it parses
\* the new one.
harfrust_buffer_set_language_ClearFirst(buffer, language) ==
    IF buffer = NULL THEN
        /\ ret' = Returned("harfrust_buffer_set_language", buffer, NULL, -1)
        /\ NoEffect
    ELSE IF language.null THEN
        /\ ret' = Returned("harfrust_buffer_set_language", buffer, NULL, -2)
        /\ NoEffect
    ELSE IF ~Utf8Valid(language.elems) THEN
        /\ ret' = Returned("harfrust_buffer_set_language", buffer, NULL, -3)
        /\ NoEffect
    ELSE
        /\ bufs' = [bufs EXCEPT ![buffer].language =
                        IF LanguageParses(language.elems)
                        THEN LanguageFromStr(language.elems)
                        ELSE NoLanguage]
        /\ ret' = Returned("harfrust_buffer_set_language", buffer, NULL,
                           IF LanguageParses(language.elems) THEN 0 ELSE -4)
        /\ released' = <<>>
        /\ UNCHANGED <<fonts, glyphs, thr>> /\ NoShaping

harfrust_buffer_set_language(buffer, language) ==
    IF buffer = NULL THEN
        /\ ret' = Returned("harfrust_buffer_set_language", buffer, NULL, -1)
        /\ NoEffect
    ELSE IF language.null THEN
        /\ ret' = Returned("harfrust_buffer_set_language", buffer, NULL, -2)
        /\ NoEffect
    ELSE IF ~Utf8Valid(language.elems) THEN
        /\ ret' = Returned("harfrust_buffer_set_language", buffer, NULL, -3)
        /\ NoEffect
    ELSE IF LanguageParses(language.elems) THEN
        /\ bufs' = [bufs EXCEPT ![buffer].language = LanguageFromStr(language.elems)]
        /\ ret' = Returned("harfrust_buffer_set_language", buffer, NULL, 0)
        /\ released' = <<>>
        /\ UNCHANGED <<fonts, glyphs, thr>> /\ NoShaping
    ELSE
        /\ ret' = Returned("harfrust_buffer_set_language", buffer, NULL, -4)
        /\ NoEffect

\* harfrust_buffer_guess_segment_properties that takes the direction from the
\* script the buffer had before the call, whether a direction is set or not.
harfrust_buffer_guess_segment_properties_StaleScript(buffer) ==
    /\ ret' = Returned("harfrust_buffer_guess_segment_properties", buffer, NULL, 0)
    /\ IF buffer = NULL
       THEN NoEffect
       ELSE /\ bufs' = [bufs EXCEPT ![buffer] =
                            [GuessSegmentProperties(@) EXCEPT !.direction =
                                IF bufs[buffer].script # NoScript
                                THEN DirectionFromScript(bufs[buffer].script)
                                ELSE "LeftToRight"]]
            /\ released' = <<>>
            /\ UNCHANGED <<fonts, glyphs, thr>> /\ NoShaping

harfrust_buffer_guess_segment_properties(buffer) ==
    /\ ret' = Returned("harfrust_buffer_guess_segment_properties", buffer, NULL, 0)
    /\ IF buffer = NULL
       THEN NoEffect
       ELSE /\ bufs' = [bufs EXCEPT ![buffer] = GuessSegmentProperties(@)]
            /\ released' = <<>>
            /\ UNCHANGED <<fonts, glyphs, thr>> /\ NoShaping

\* ---------------------------------------------------------------- font functions

\* FontInner::new, HarfRustFont: the object holds the copied bytes and nothing else.
FontInner(data_vec) == [data |-> data_vec]

\* `data` points to at least `len` chunks when len > 0 (slice::from_raw_parts).
harfrust_font_from_data(data, len) ==
    /\ released' = <<>>
    /\ UNCHANGED <<bufs, glyphs, thr>> /\ NoShaping
    /\ IF data.null \/ len <= 0 THEN
           /\ ret' = Returned("harfrust_font_from_data", NULL, NULL, NULL)
           /\ fonts' = fonts
       ELSE LET data_vec == SubSeq(data.elems, 1, len) IN
           IF ~FontRefNew(data_vec).ok THEN
               /\ ret' = Returned("harfrust_font_from_data", NULL, NULL, NULL)
               /\ fonts' = fonts
           ELSE \E h \in FreeFont :
               /\ fonts' = Put(fonts, h, FontInner(data_vec))
               /\ ret' = Returned("harfrust_font_from_data", NULL, NULL, h)

harfrust_font_from_data_index(data, len, index) ==
    /\ released' = <<>>
    /\ UNCHANGED <<bufs, glyphs, thr>> /\ NoShaping
    /\ IF data.null \/ len <= 0 THEN
           /\ ret' = Returned("harfrust_font_from_data_index", NULL, NULL, NULL)
           /\ fonts' = fonts
       ELSE LET data_vec == SubSeq(data.elems, 1, len) IN
           IF ~FontRefFromIndex(data_vec, index).ok THEN
               /\ ret' = Returned("harfrust_font_from_data_index", NULL, NULL, NULL)
               /\ fonts' = fonts
           ELSE \E h \in FreeFont :
               /\ fonts' = Put(fonts, h, FontInner(data_vec))
               /\ ret' = Returned("harfrust_font_from_data_index", NULL, NULL, h)

harfrust_font_units_per_em(font) ==
    /\ NoEffect
    /\ IF font = NULL THEN
           ret' = Returned("harfrust_font_units_per_em", font, NULL, -1)
       ELSE LET font_ref == FontRefNew(fonts[font].data) IN
           IF ~font_ref.ok
           THEN ret' = Returned("harfrust_font_units_per_em", font, NULL, -1)
           ELSE ret' = Returned("harfrust_font_units_per_em", font, NULL, UnitsPerEm(font_ref.face))

harfrust_font_free(font) ==
    /\ ret' = Returned("harfrust_font_free", font, NULL, 0)
    /\ IF font # NULL
       THEN /\ fonts' = Drop(fonts, font)
            /\ released' = <<Released("font", font)>>
            /\ UNCHANGED <<bufs, glyphs, thr>> /\ NoShaping
       ELSE NoEffect

\* ---------------------------------------------------------------- shape functions

ShapeOps == {"harfrust_shape", "harfrust_shape_with_features", "harfrust_shape_full"}

\* GuessIfUnset without the test of the direction.
GuessIfUnset_Always(buffer_box) == GuessSegmentProperties(buffer_box)

\* "Guess segment properties only if direction is not explicitly set"
GuessIfUnset(buffer_box) ==
    IF buffer_box.direction = "Invalid" THEN GuessSegmentProperties(buffer_box) ELSE buffer_box

\* RustFeatures that reads the whole list whenever the pointer is not null.
RustFeatures_IgnoreCount(features, num_features) ==
    IF ~features.null
    THEN [i \in 1..Len(features.elems) |->
             [tag |-> FromBeBytes(ToBeBytes(features.elems[i].tag)),
              value |-> features.elems[i].value,
              start |-> features.elems[i].start,
              end |-> features.elems[i].end]]
    ELSE <<>>

\* "Prepare features": a null pointer or a zero count gives no feature
RustFeatures(features, num_features) ==
    IF ~features.null /\ num_features > 0
    THEN [i \in 1..num_features |->
             [tag |-> FromBeBytes(ToBeBytes(features.elems[i].tag)),
              value |-> features.elems[i].value,
              start |-> features.elems[i].start,
              end |-> features.elems[i].end]]
    ELSE <<>>

\* "Handle variable font instance": Some(instance) only for a non-null pointer and
\* a count above zero
InstanceOpt(font_ref, variations, num_variations) ==
    IF ~variations.null /\ num_variations > 0
    THEN LET rust_variations ==
                 [i \in 1..num_variations |->
                     [tag |-> FromBeBytes(ToBeBytes(variations.elems[i].tag)),
                      value |-> variations.elems[i].value]]
         IN  [some |-> TRUE, inst |-> InstanceFromVariations(font_ref.face, rust_variations)]
    ELSE [some |-> FALSE, inst |-> NoInstance]

\* InfosCache that leaves out the glyphs the font does not have (.notdef).
InfosCache_SkipNotdef(glyph_buffer) ==
    LET kept == SelectSeq(glyph_buffer.info, LAMBDA info : info.glyph_id # 0)
    IN  [i \in 1..Len(kept) |-> [glyph_id |-> kept[i].glyph_id, cluster |-> kept[i].cluster]]

\* "Convert to FFI-safe format"
InfosCache(glyph_buffer) ==
    [i \in 1..Len(glyph_buffer.info) |->
        [glyph_id |-> glyph_buffer.info[i].glyph_id, cluster |-> glyph_buffer.info[i].cluster]]

PositionsCache(glyph_buffer) ==
    [i \in 1..Len(glyph_buffer.pos) |->
        [x_advance |-> glyph_buffer.pos[i].x_advance, y_advance |-> glyph_buffer.pos[i].y_advance,
         x_offset |-> glyph_buffer.pos[i].x_offset, y_offset |-> glyph_buffer.pos[i].y_offset]]

\* HarfRustGlyphBuffer { inner, infos_cache, positions_cache }
GlyphWrapper(glyph_buffer) ==
    [inner |-> glyph_buffer,
     infos_cache |-> InfosCache(glyph_buffer),
     positions_cache |-> PositionsCache(glyph_buffer)]

\* The early return of the three shape functions: nothing is touched.
ShapeNullReturn(op, font, buffer) ==
    /\ ret' = Returned(op, buffer, font, NULL)
    /\ NoEffect

\* The return after a failed parse: buffer_box goes out of scope.
ShapeParseFailure(op, font, buffer) ==
    /\ bufs' = Drop(bufs, buffer)
    /\ released' = <<Released("buffer", buffer)>>
    /\ ret' = Returned(op, buffer, font, NULL)
    /\ UNCHANGED <<fonts, glyphs, thr>> /\ NoShaping

\* ShapeSuccess that keeps the face the call shaped with in the font object, as a
\* static font.
ShapeSuccess_KeepInstance(op, font, buffer, call) ==
    \E g \in FreeText(Drop(bufs, buffer), glyphs) :
        /\ bufs' = Drop(bufs, buffer)
        /\ released' = <<Released("buffer", buffer)>>
        /\ shaped' = call
        /\ glyphs' = Put(glyphs, g, GlyphWrapper(Shape(call.face, call.instance,
                                                       call.buffer, call.features)))
        /\ ret' = Returned(op, buffer, font, g)
        /\ fonts' = [fonts EXCEPT ![font] = FontInner(<<"sfnt", "face">>)]
        /\ UNCHANGED thr

\* The engine's shape is called, buffer_box.inner goes into it and the box is
\* gone; the result is converted, wrapped and boxed.
ShapeSuccess(op, font, buffer, call) ==
    \E g \in FreeText(Drop(bufs, buffer), glyphs) :
        /\ bufs' = Drop(bufs, buffer)
        /\ released' = <<Released("buffer", buffer)>>
        /\ shaped' = call
        /\ glyphs' = Put(glyphs, g, GlyphWrapper(Shape(call.face, call.instance,
                                                       call.buffer, call.features)))
        /\ ret' = Returned(op, buffer, font, g)
        /\ UNCHANGED <<fonts, thr>>

harfrust_shape(font, buffer) ==
    IF font = NULL \/ buffer = NULL THEN
        ShapeNullReturn("harfrust_shape", font, buffer)
    ELSE LET font_ref == FontRefNew(fonts[font].data) IN
        IF ~font_ref.ok THEN
            ShapeParseFailure("harfrust_shape", font, buffer)
        ELSE
            ShapeSuccess("harfrust_shape", font, buffer,
                         EngineCall(font_ref.face, NoInstance, GuessIfUnset(bufs[buffer]), <<>>))

harfrust_shape_with_features(font, buffer, features, num_features) ==
    IF font = NULL \/ buffer = NULL THEN
        ShapeNullReturn("harfrust_shape_with_features", font, buffer)
    ELSE LET font_ref == FontRefNew(fonts[font].data) IN
        IF ~font_ref.ok THEN
            ShapeParseFailure("harfrust_shape_with_features", font, buffer)
        ELSE
            ShapeSuccess("harfrust_shape_with_features", font, buffer,
                         EngineCall(font_ref.face, NoInstance, GuessIfUnset(bufs[buffer]),
                                    RustFeatures(features, num_features)))

harfrust_shape_full(font, buffer, features, num_features, variations, num_variations) ==
    IF font = NULL \/ buffer = NULL THEN
        ShapeNullReturn("harfrust_shape_full", font, buffer)
    ELSE LET font_ref == FontRefNew(fonts[font].data) IN
        IF ~font_ref.ok THEN
            ShapeParseFailure("harfrust_shape_full", font, buffer)
        ELSE
            LET instance_opt == InstanceOpt(font_ref, variations, num_variations)
            IN  ShapeSuccess("harfrust_shape_full", font, buffer,
                             EngineCall(font_ref.face,
                                        IF instance_opt.some THEN instance_opt.inst ELSE NoInstance,
                                        GuessIfUnset(bufs[buffer]),
                                        RustFeatures(features, num_features)))

\* ---------------------------------------------------------------- glyph buffer functions

harfrust_glyph_buffer_len(buffer) ==
    /\ ret' = Returned("harfrust_glyph_buffer_len", buffer, NULL,
                       IF buffer = NULL THEN -1 ELSE GlyphBufferLen(glyphs[buffer].inner))
    /\ NoEffect

\* The pointer returned is the address of the cache of this object: the handle
\* stands for it, NULL for the null pointer.
harfrust_glyph_buffer_get_infos(buffer) ==
    /\ ret' = Returned("harfrust_glyph_buffer_get_infos", buffer, NULL,
                       IF buffer = NULL THEN NULL ELSE buffer)
    /\ NoEffect

harfrust_glyph_buffer_get_positions(buffer) ==
    /\ ret' = Returned("harfrust_glyph_buffer_get_positions", buffer, NULL,
                       IF buffer = NULL THEN NULL ELSE buffer)
    /\ NoEffect

\* harfrust_glyph_buffer_into_buffer that drops the wrapper by hand and again when
\* buffer_box goes out of scope.
harfrust_glyph_buffer_into_buffer_DropTwice(buffer) ==
    IF buffer = NULL THEN
        /\ ret' = Returned("harfrust_glyph_buffer_into_buffer", buffer, NULL, NULL)
        /\ NoEffect
    ELSE
        LET unicode_buffer == GlyphBufferClear(glyphs[buffer].inner)
        IN  \E h \in FreeText(bufs, Drop(glyphs, buffer)) :
                /\ glyphs' = Drop(glyphs, buffer)
                /\ released' = <<Released("glyph_buffer", buffer), Released("glyph_buffer", buffer)>>
                /\ bufs' = Put(bufs, h, unicode_buffer)
                /\ ret' = Returned("harfrust_glyph_buffer_into_buffer", buffer, NULL, h)
                /\ UNCHANGED <<fonts, thr>> /\ NoShaping

harfrust_glyph_buffer_into_buffer(buffer) ==
    IF buffer = NULL THEN
        /\ ret' = Returned("harfrust_glyph_buffer_into_buffer", buffer, NULL, NULL)
        /\ NoEffect
    ELSE
        LET unicode_buffer == GlyphBufferClear(glyphs[buffer].inner)
        IN  \E h \in FreeText(bufs, Drop(glyphs, buffer)) :
                /\ glyphs' = Drop(glyphs, buffer)
                /\ released' = <<Released("glyph_buffer", buffer)>>
                /\ bufs' = Put(bufs, h, unicode_buffer)
                /\ ret' = Returned("harfrust_glyph_buffer_into_buffer", buffer, NULL, h)
                /\ UNCHANGED <<fonts, thr>> /\ NoShaping

harfrust_glyph_buffer_free(buffer) ==
    /\ ret' = Returned("harfrust_glyph_buffer_free", buffer, NULL, 0)
    /\ IF buffer # NULL
       THEN /\ glyphs' = Drop(glyphs, buffer)
            /\ released' = <<Released("glyph_buffer", buffer)>>
            /\ UNCHANGED <<bufs, fonts, thr>> /\ NoShaping
       ELSE NoEffect

\* ---------------------------------------------------------------- the host

\* C strings (bytes, the terminating NUL left out): "", "f", "ff", U+05D0 (two
\* bytes), "f" followed by a 0xFF byte, and a cut-off sequence.
StrEmpty == PtrTo(<<>>)

StrF == PtrTo(<<102>>)

StrFF == PtrTo(<<102, 102>>)

StrAlef == PtrTo(<<215, 144>>)

StrBadByte == PtrTo(<<102, 255>>)

StrCutOff == PtrTo(<<215>>)

\* Language strings: "en", "en-US".
StrEn == PtrTo(<<101, 110>>)

StrEnUS == PtrTo(<<101, 110, 45, 85, 83>>)

\* UTF-16 text: "f", and a surrogate pair (U+1F600) that a length of 1 cuts to
\* an unpaired surrogate.
Utf16F == PtrTo(<<102>>)

Utf16Pair == PtrTo(<<55357, 56832>>)

\* Font files: a single font, a single variable font, a collection of two faces,
\* and bytes that are no font.
FontSingle == PtrTo(<<"sfnt", "face">>)

FontVariable == PtrTo(<<"sfnt", "vface">>)

FontCollection == PtrTo(<<"ttcf", "face", "face">>)

FontJunk == PtrTo(<<"junk">>)

\* u32::MAX, as its four bytes
U32Max == <<255, 255, 255, 255>>

\* A feature list: "liga" off for the whole buffer.  A variation list: "wght" 700.
LigaOff == PtrTo(<<[tag |-> TagLiga, value |-> 0, start |-> 0, end |-> U32Max]>>)

WghtBold == PtrTo(<<[tag |-> TagWght, value |-> 700]>>)

\* The arguments of a host that exercises the life cycle of the objects: every
\* kind of font file, features and variations, and a few buffer settings.
LifecycleInputs ==
    [texts |-> {NullPtr, StrFF, StrAlef, StrBadByte},
     utf16 |-> {NullPtr, Utf16F},
     directions |-> {0, 5},
     scripts |-> {TagLatn},
     languages |-> {NullPtr, StrEn},
     fontdata |-> {NullPtr, FontSingle, FontVariable, FontCollection, FontJunk},
     indexes |-> {0, 1},
     features |-> {NullPtr, LigaOff},
     variations |-> {NullPtr, WghtBold}]

\* The arguments of a host that exercises the configuration of a buffer: every
\* direction, scripts, languages and texts, with one font and no feature.
ConfigInputs ==
    [texts |-> {NullPtr, StrEmpty, StrF, StrFF, StrAlef, StrBadByte, StrCutOff},
     utf16 |-> {NullPtr, Utf16F},
     directions |-> DirectionCodes,
     scripts |-> {0, TagLatn, TagHebr},
     languages |-> {NullPtr, StrEmpty, StrEn, StrEnUS, StrBadByte},
     fontdata |-> {NullPtr, FontSingle},
     indexes |-> {0},
     features |-> {NullPtr},
     variations |-> {NullPtr}]

\* "LATN": the Latin tag in capital letters.
TagUpperLatn == FromBeBytes(<<76, 65, 84, 78>>)

\* UTF-16 text: a low surrogate with no high one before it, then "f"; and
\* U+1F600 as a surrogate pair, then "f".
Utf16LowF == PtrTo(<<56832, 102>>)

Utf16PairF == PtrTo(<<55357, 56832, 102>>)

\* A high surrogate with "f" where its low half should be.
Utf16HighF == PtrTo(<<55357, 102>>)

\* The arguments of a host that exercises the encodings: UTF-16 text with
\* surrogates, whole and cut, and script tags in either case.
TextInputs ==
    [texts |-> {NullPtr, StrF},
     utf16 |-> {NullPtr, Utf16LowF, Utf16HighF, Utf16PairF},
     directions |-> {0, 4},
     scripts |-> {TagLatn, TagHebr, TagUpperLatn},
     languages |-> {NullPtr},
     fontdata |-> {NullPtr, FontSingle},
     indexes |-> {0},
     features |-> {NullPtr},
     variations |-> {NullPtr}]

\* The arguments of a host that compares the shape functions: feature and
\* variation lists, null or not, with a font that has an axis and one that fails
\* to parse again.
ShapeInputs ==
    [texts |-> {StrFF, StrAlef},
     utf16 |-> {NullPtr},
     directions |-> {5},
     scripts |-> {TagLatn},
     languages |-> {NullPtr},
     fontdata |-> {FontVariable, FontCollection},
     indexes |-> {0},
     features |-> {NullPtr, LigaOff},
     variations |-> {NullPtr, WghtBold}]

\* The counts that may come with a pointer: up to the number of elements it
\* points to (slice::from_raw_parts reads that many); any count with a null
\* pointer, which is not read.
Counts(ptr) == IF ptr.null THEN {0, 1} ELSE 0..Len(ptr.elems)

\* The lengths that may come with font data: the length of the file, or a length
\* that is not positive.
FileLens(ptr) == {-1, 0, IF ptr.null THEN 1 ELSE Len(ptr.elems)}

\* The handles a well-behaved host may pass: null, or a live one.
BufArgs == {NULL} \cup DOMAIN bufs

FontArgs == {NULL} \cup DOMAIN fonts

GlyphArgs == {NULL} \cup DOMAIN glyphs

NoThreads == <<>>

Init ==
    /\ bufs = <<>>
    /\ fonts = <<>>
    /\ glyphs = <<>>
    /\ ret = Returned("none", NULL, NULL, 0)
    /\ released = <<>>
    /\ shaped = NotShaped
    /\ thr = NoThreads

\* One call of the host, with arguments from `in`.
HostCall(in) ==
    \/ harfrust_buffer_new
    \/ \E b \in BufArgs, t \in in.texts : harfrust_buffer_add_str(b, t)
    \/ \E b \in BufArgs, t \in in.utf16 :
          \E len \in Counts(t) \cup {-1} : harfrust_buffer_add_utf16(b, t, len)
    \/ \E b \in BufArgs : harfrust_buffer_len(b)
    \/ \E b \in BufArgs : harfrust_buffer_clear(b)
    \/ \E b \in BufArgs : harfrust_buffer_free(b)
    \/ \E b \in BufArgs, d \in in.directions : harfrust_buffer_set_direction(b, d)
    \/ \E b \in BufArgs : harfrust_buffer_get_direction(b)
    \/ \E b \in BufArgs, s \in in.scripts : harfrust_buffer_set_script(b, s)
    \/ \E b \in BufArgs : harfrust_buffer_get_script(b)
    \/ \E b \in BufArgs, l \in in.languages : harfrust_buffer_set_language(b, l)
    \/ \E b \in BufArgs : harfrust_buffer_guess_segment_properties(b)
    \/ \E d \in in.fontdata :
          \E len \in FileLens(d) : harfrust_font_from_data(d, len)
    \/ \E d \in in.fontdata, index \in in.indexes :
          \E len \in FileLens(d) : harfrust_font_from_data_index(d, len, index)
    \/ \E f \in FontArgs : harfrust_font_units_per_em(f)
    \/ \E f \in FontArgs : harfrust_font_free(f)
    \/ \E f \in FontArgs, b \in BufArgs : harfrust_shape(f, b)
    \/ \E f \in FontArgs, b \in BufArgs, fs \in in.features :
          \E nf \in Counts(fs) : harfrust_shape_with_features(f, b, fs, nf)
    \/ \E f \in FontArgs, b \in BufArgs, fs \in in.features, vs \in in.variations :
          \E nf \in Counts(fs), nv \in Counts(vs) :
              harfrust_shape_full(f, b, fs, nf, vs, nv)
    \/ \E g \in GlyphArgs : harfrust_glyph_buffer_len(g)
    \/ \E g \in GlyphArgs : harfrust_glyph_buffer_get_infos(g)
    \/ \E g \in GlyphArgs : harfrust_glyph_buffer_get_positions(g)
    \/ \E g \in GlyphArgs : harfrust_glyph_buffer_into_buffer(g)
    \/ \E g \in GlyphArgs : harfrust_glyph_buffer_free(g)

Next == HostCall(LifecycleInputs)

Spec == Init /\ [][Next]_vars

NextConfig == HostCall(ConfigInputs)

SpecConfig == Init /\ [][NextConfig]_vars

NextText == HostCall(TextInputs)

SpecText == Init /\ [][NextText]_vars

NextShape == HostCall(ShapeInputs)

SpecShape == Init /\ [][NextShape]_vars

\* ---------------------------------------------------------------- what the claims speak of

\* The last call left every object as it was and released nothing.
Untouched == bufs' = bufs /\ fonts' = fonts /\ glyphs' = glyphs /\ released' = <<>>

LiveObjects(b, f, g) == Cardinality(DOMAIN b) + Cardinality(DOMAIN f) + Cardinality(DOMAIN g)

StatusOps ==
    {"harfrust_buffer_add_str", "harfrust_buffer_add_utf16", "harfrust_buffer_len",
     "harfrust_buffer_set_language", "harfrust_font_units_per_em", "harfrust_glyph_buffer_len"}

ZeroOps == {"harfrust_buffer_get_direction", "harfrust_buffer_get_script"}

PointerOps ==
    {"harfrust_glyph_buffer_get_infos", "harfrust_glyph_buffer_get_positions",
     "harfrust_glyph_buffer_into_buffer"}

VoidOps ==
    {"harfrust_buffer_clear", "harfrust_buffer_set_direction", "harfrust_buffer_set_script",
     "harfrust_buffer_guess_segment_properties", "harfrust_buffer_free", "harfrust_font_free",
     "harfrust_glyph_buffer_free"}

\* ---------------------------------------------------------------- C1

\* C1: a call with a null primary handle returns its sentinel (-1 for the status
\* functions, 0 for get_direction and get_script, null for the shape functions,
\* font_from_data(null, len), get_infos, get_positions and into_buffer), and it
\* changes and releases no object; the null check comes before every other
\* check of the arguments.
C1_NullHandleIsSafe ==
    [][ /\ (ret'.op \in StatusOps /\ ret'.h = NULL) => (ret'.val = -1 /\ Untouched)
        /\ (ret'.op \in ZeroOps /\ ret'.h = NULL) => (ret'.val = 0 /\ Untouched)
        /\ (ret'.op \in PointerOps /\ ret'.h = NULL) => (ret'.val = NULL /\ Untouched)
        /\ (ret'.op \in VoidOps /\ ret'.h = NULL) => Untouched
        /\ (ret'.op \in ShapeOps /\ (ret'.font = NULL \/ ret'.h = NULL))
              => (ret'.val = NULL /\ Untouched)
        /\ ret'.op = "harfrust_font_from_data"
              => \A len \in FileLens(NullPtr) :
                    harfrust_font_from_data(NullPtr, len) => (ret'.val = NULL /\ Untouched)
      ]_vars

\* A null buffer with a null text gave -1 while a buffer was live.
C1_Witness ==
    /\ ret.op \in {"harfrust_buffer_add_str", "harfrust_buffer_set_language"}
    /\ ret.h = NULL /\ ret.val = -1
    /\ DOMAIN bufs # {}

\* ---------------------------------------------------------------- C2

\* C2: when a shape function is called with a non-null buffer, the buffer has been
\* released exactly once when the call returns, whatever the outcome.
C2_BufferAlwaysConsumed ==
    (ret.op \in ShapeOps /\ ret.h # NULL)
        => (released = <<Released("buffer", ret.h)>> /\ ret.h \notin DOMAIN bufs)

\* ---------------------------------------------------------------- C3

\* C3: a font that construction accepted never fails later: units_per_em on it is
\* not -1, and a shape call with it and a non-null buffer returns a result.
C3_AcceptedFontNeverFails ==
    /\ (ret.op = "harfrust_font_units_per_em" /\ ret.h # NULL) => ret.val # -1
    /\ (ret.op \in ShapeOps /\ ret.h # NULL /\ ret.font # NULL) => ret.val # NULL

\* ---------------------------------------------------------------- C4

\* The segment properties of a buffer.
Properties(b) == <<b.direction, b.script, b.language>>

\* C4: in the three shape functions the properties are guessed exactly when the
\* direction of the buffer is unset at the call: a buffer with an explicit
\* direction goes to the engine with its direction, script and language (and its
\* content) as they were, and with a font that parses the call returns a result
\* with the glyphs the engine gives for that direction.
C4_GuessOnlyWhenUnset ==
    [][ (ret'.op \in ShapeOps /\ ret'.h # NULL /\ ret'.font # NULL)
          => LET before == bufs[ret'.h]
             IN  /\ (before.direction # "Invalid" /\ FontRefNew(fonts[ret'.font].data).ok)
                       => ret'.val # NULL
                 /\ ret'.val # NULL
                       => /\ shaped'.called
                          /\ shaped'.buffer.info = before.info
                          /\ shaped'.buffer.direction # "Invalid"
                          /\ IF before.direction = "Invalid"
                             THEN Properties(shaped'.buffer)
                                     = Properties(GuessSegmentProperties(before))
                             ELSE Properties(shaped'.buffer) = Properties(before)
                          /\ Len(glyphs'[ret'.val].infos_cache)
                                = Len(Substitute(before.info, ~LigaDisabled(shaped'.features)))
      ]_vars

\* Latin text with an explicit right-to-left direction and no script was shaped:
\* guessing would have set the script.
C4_Witness ==
    /\ ret.op \in ShapeOps /\ ret.val # NULL
    /\ shaped.buffer.direction = "RightToLeft"
    /\ shaped.buffer.script = NoScript
    /\ Len(shaped.buffer.info) = 2
    /\ shaped.buffer.info[1].codepoint = 102
    /\ shaped.buffer.info[2].codepoint # 102
    /\ Len(glyphs[ret.val].infos_cache) = 2
    /\ glyphs[ret.val].infos_cache[1].glyph_id = Cmap(shaped.buffer.info[2].codepoint)
    /\ glyphs[ret.val].infos_cache[2].glyph_id = Cmap(102)

\* ---------------------------------------------------------------- C5

\* C5: in every live shaping result the two cached arrays have the length of the
\* engine's output, entry i of each is made from glyph i of the output, and
\* harfrust_glyph_buffer_len returns that length.
C5_CachesAligned ==
    /\ \A g \in DOMAIN glyphs :
          LET w == glyphs[g]
              n == GlyphBufferLen(w.inner)
          IN  /\ Len(w.infos_cache) = n
              /\ Len(w.positions_cache) = n
              /\ \A i \in 1..n :
                    /\ w.infos_cache[i].glyph_id = w.inner.info[i].glyph_id
                    /\ w.infos_cache[i].cluster = w.inner.info[i].cluster
                    /\ w.positions_cache[i].x_advance = w.inner.pos[i].x_advance
                    /\ w.positions_cache[i].y_advance = w.inner.pos[i].y_advance
                    /\ w.positions_cache[i].x_offset = w.inner.pos[i].x_offset
                    /\ w.positions_cache[i].y_offset = w.inner.pos[i].y_offset
    /\ (ret.op = "harfrust_glyph_buffer_len" /\ ret.h # NULL)
          => /\ ret.val = Len(glyphs[ret.h].infos_cache)
             /\ ret.val = Len(glyphs[ret.h].positions_cache)

\* The length of a result with a glyph the font does not have was asked for.
C5_Witness ==
    /\ ret.op = "harfrust_glyph_buffer_len" /\ ret.h # NULL /\ ret.val = 2
    /\ \E i \in 1..2 : glyphs[ret.h].infos_cache[i].glyph_id = 0

\* ---------------------------------------------------------------- C6

\* C6: harfrust_glyph_buffer_into_buffer on a live result returns a live, empty
\* buffer and releases the result exactly once, so that the result is no longer
\* live; appending, shaping with success and recycling leave the number of live
\* objects as it was.
C6_RecycleGivesEmptyBuffer ==
    [][ /\ (ret'.op = "harfrust_glyph_buffer_into_buffer" /\ ret'.h # NULL)
              => /\ ret'.val # NULL
                 /\ ret'.val \in DOMAIN bufs'
                 /\ Len(bufs'[ret'.val].info) = 0
                 /\ released' = <<Released("glyph_buffer", ret'.h)>>
                 /\ ret'.h \notin DOMAIN glyphs'
                 /\ LiveObjects(bufs', fonts', glyphs') = LiveObjects(bufs, fonts, glyphs)
        /\ (ret'.op \in ShapeOps /\ ret'.val # NULL)
              => LiveObjects(bufs', fonts', glyphs') = LiveObjects(bufs, fonts, glyphs)
        /\ ret'.op \in {"harfrust_buffer_add_str", "harfrust_buffer_add_utf16"}
              => LiveObjects(bufs', fonts', glyphs') = LiveObjects(bufs, fonts, glyphs)
      ]_vars

\* A result was recycled into a buffer while a font was live.
C6_Witness ==
    /\ ret.op = "harfrust_glyph_buffer_into_buffer" /\ ret.h # NULL
    /\ ret.val \in DOMAIN bufs
    /\ released = <<Released("glyph_buffer", ret.h)>>
    /\ DOMAIN fonts # {}

\* ---------------------------------------------------------------- C7

\* C7: no shape call and no harfrust_font_units_per_em call changes a font object,
\* whether it succeeds or not; a font object holds the bytes and nothing else, and
\* the result of a shape call is a function of the bytes of the font, of the
\* buffer as it was passed and of the features and the variation instance of
\* that call.
C7_FontUnchangedByShaping ==
    [][ /\ ret'.op \in ShapeOps \cup {"harfrust_font_units_per_em"} => fonts' = fonts
        /\ \A f \in DOMAIN fonts' : DOMAIN fonts'[f] = {"data"}
        /\ (ret'.op \in ShapeOps /\ ret'.val # NULL)
              => glyphs'[ret'.val] =
                    GlyphWrapper(Shape(FontRefNew(fonts'[ret'.font].data).face, shaped'.instance,
                                       GuessIfUnset(bufs[ret'.h]), shaped'.features))
      ]_vars

\* A variable font was shaped with a weight and is still the font it was.
C7_Witness ==
    /\ ret.op = "harfrust_shape_full" /\ ret.val # NULL
    /\ fonts[ret.font].data = FontVariable.elems
    /\ shaped.instance # NoInstance
    /\ Len(glyphs[ret.val].positions_cache) > 0
    /\ glyphs[ret.val].positions_cache[1].x_advance \in {550, 650}

\* ---------------------------------------------------------------- concurrent shape calls

\* The execution contexts that call harfrust_shape_full at the same time.
NumContexts == 2

Contexts == 1..NumContexts

\* Font objects the host can hold: accepted by harfrust_font_from_data, or a
\* collection accepted by harfrust_font_from_data_index.
ConcFonts ==
    {FontInner(d.elems) : d \in {FontSingle, FontVariable, FontCollection}}

\* Buffers the host can have built: "ff" with nothing set, and alef with the
\* direction set by hand.
ConcBuffers ==
    {PushStr(NewUnicodeBuffer, StrFF.elems),
     [PushStr(NewUnicodeBuffer, StrAlef.elems) EXCEPT !.direction = "LeftToRight"]}

\* The local glyph_buffer before the engine has shaped.
NoGlyphs == [info |-> <<>>, pos |-> <<>>]

\* A context before its call: the arguments it will pass, and the locals of
\* harfrust_shape_full, not yet set.  `given` and `store` keep the buffer and
\* the font as they were when the calls began.
Context(t, given, store, features, variations) ==
    [pc |-> "call", font |-> 1, buffer |-> t,
     features |-> features,
     num_features |-> IF features.null THEN 0 ELSE Len(features.elems),
     variations |-> variations,
     num_variations |-> IF variations.null THEN 0 ELSE Len(variations.elems),
     given |-> given, store |-> store,
     buffer_box |-> NewUnicodeBuffer,
     instance_opt |-> [some |-> FALSE, inst |-> NoInstance],
     glyph_buffer |-> NoGlyphs,
     result |-> NULL]

InitConc ==
    \E store \in ConcFonts :
        \E given \in [Contexts -> ConcBuffers],
           features \in [Contexts -> {NullPtr, LigaOff}],
           variations \in [Contexts -> {NullPtr, WghtBold}] :
            /\ fonts = <<store>>
            /\ bufs = given
            /\ glyphs = <<>>
            /\ ret = Returned("none", NULL, NULL, 0)
            /\ released = <<>>
            /\ shaped = NotShaped
            /\ thr = [t \in Contexts |->
                         Context(t, given[t], store, features[t], variations[t])]

\* The null checks, `&*font`, `Box::from_raw(buffer)`.
ShapeEnter(t) ==
    /\ thr[t].pc = "call"
    /\ IF thr[t].font = NULL \/ thr[t].buffer = NULL
       THEN /\ thr' = [thr EXCEPT ![t].pc = "done", ![t].result = NULL]
            /\ UNCHANGED bufs
       ELSE /\ thr' = [thr EXCEPT ![t].pc = "parse", ![t].buffer_box = bufs[thr[t].buffer]]
            /\ bufs' = Drop(bufs, thr[t].buffer)
    /\ UNCHANGED <<fonts, glyphs, ret, released, shaped>>

\* "Parse the font for this shaping operation": the bytes of the font object are
\* read; font_ref borrows them.
ShapeParse(t) ==
    /\ thr[t].pc = "parse"
    /\ thr' = [thr EXCEPT ![t].pc =
                  IF FontRefNew(fonts[thr[t].font].data).ok THEN "instance" ELSE "done"]
    /\ UNCHANGED <<bufs, fonts, glyphs, ret, released, shaped>>

\* ShapeInstance that keeps the instance it made in the font object, as a static
\* font.
ShapeInstance_KeepInFont(t) ==
    /\ thr[t].pc = "instance"
    /\ LET font_ref == FontRefNew(fonts[thr[t].font].data)
           instance_opt == InstanceOpt(font_ref, thr[t].variations, thr[t].num_variations)
       IN  /\ thr' = [thr EXCEPT ![t].pc = "guess", ![t].instance_opt = instance_opt]
           /\ fonts' = IF instance_opt.some
                       THEN [fonts EXCEPT ![thr[t].font] = FontInner(<<"sfnt", "face">>)]
                       ELSE fonts
    /\ UNCHANGED <<bufs, glyphs, ret, released, shaped>>

\* "Handle variable font instance": the tables are read through font_ref.
ShapeInstance(t) ==
    /\ thr[t].pc = "instance"
    /\ LET font_ref == FontRefNew(fonts[thr[t].font].data)
       IN  thr' = [thr EXCEPT ![t].pc = "guess",
                              ![t].instance_opt =
                                  InstanceOpt(font_ref, thr[t].variations,
                                              thr[t].num_variations)]
    /\ UNCHANGED <<bufs, fonts, glyphs, ret, released, shaped>>

\* "Guess segment properties only if direction is not explicitly set"
ShapeGuess(t) ==
    /\ thr[t].pc = "guess"
    /\ thr' = [thr EXCEPT ![t].pc = "shape",
                          ![t].buffer_box = GuessIfUnset(thr[t].buffer_box)]
    /\ UNCHANGED <<bufs, fonts, glyphs, ret, released, shaped>>

\* "Prepare features", "Perform shaping": the tables are read through font_ref.
ShapePerform(t) ==
    /\ thr[t].pc = "shape"
    /\ LET font_ref == FontRefNew(fonts[thr[t].font].data)
           instance == IF thr[t].instance_opt.some THEN thr[t].instance_opt.inst
                       ELSE NoInstance
       IN  thr' = [thr EXCEPT ![t].pc = "convert",
                              ![t].glyph_buffer =
                                  Shape(font_ref.face, instance, thr[t].buffer_box,
                                        RustFeatures(thr[t].features, thr[t].num_features))]
    /\ UNCHANGED <<bufs, fonts, glyphs, ret, released, shaped>>

\* "Convert to FFI-safe format", `Box::into_raw(Box::new(wrapper))`.
ShapeConvert(t) ==
    /\ thr[t].pc = "convert"
    /\ \E g \in FreeText(bufs, glyphs) :
          /\ glyphs' = Put(glyphs, g, GlyphWrapper(thr[t].glyph_buffer))
          /\ thr' = [thr EXCEPT ![t].pc = "done", ![t].result = g]
    /\ UNCHANGED <<bufs, fonts, ret, released, shaped>>

NextConc ==
    \E t \in DOMAIN thr :
        \/ ShapeEnter(t)
        \/ ShapeParse(t)
        \/ ShapeInstance(t)
        \/ ShapeGuess(t)
        \/ ShapePerform(t)
        \/ ShapeConvert(t)

SpecConc == InitConc /\ [][NextConc]_vars

\* ---------------------------------------------------------------- C8

\* What harfrust_shape_full makes of the arguments of context t when no other
\* call runs: nothing when the font does not parse, else the wrapped output.
Alone(t) ==
    LET font_ref == FontRefNew(thr[t].store.data)
        instance_opt == InstanceOpt(font_ref, thr[t].variations, thr[t].num_variations)
    IN  IF ~font_ref.ok THEN [some |-> FALSE, wrapper |-> GlyphWrapper(NoGlyphs)]
        ELSE [some |-> TRUE,
              wrapper |->
                  GlyphWrapper(Shape(font_ref.face,
                                     IF instance_opt.some THEN instance_opt.inst ELSE NoInstance,
                                     GuessIfUnset(thr[t].given),
                                     RustFeatures(thr[t].features, thr[t].num_features)))]

\* C8: in every interleaving of shape calls that share one font, each with its
\* own buffer, the font stays what it was when the calls began, and each call
\* that has returned has taken its buffer and returned what it returns when it
\* runs alone: null for a font that does not parse, else a result of its own
\* with the glyphs of its own text.
C8_ConcurrentShapeSafe ==
    \A t \in DOMAIN thr :
        /\ fonts[thr[t].font] = thr[t].store
        /\ thr[t].pc = "done" =>
              /\ thr[t].buffer \notin DOMAIN bufs
              /\ (thr[t].result = NULL) = ~Alone(t).some
              /\ thr[t].result # NULL =>
                    /\ thr[t].result \in DOMAIN glyphs
                    /\ glyphs[thr[t].result] = Alone(t).wrapper
                    /\ \A u \in DOMAIN thr \ {t} : thr[u].result # thr[t].result

\* Context 1 has returned the bold instance of the variable font while context 2,
\* which asked for no instance and has another text, is between its parse and its
\* shaping.
C8_Witness ==
    /\ thr # <<>>
    /\ thr[1].pc = "done" /\ thr[1].result # NULL /\ thr[1].instance_opt.some
    /\ thr[2].pc = "shape" /\ thr[2].variations.null
    /\ thr[1].given # thr[2].given
    /\ FontRefNew(fonts[1].data).face = "vface"

\* ---------------------------------------------------------------- C9

\* The status the checks of harfrust_buffer_set_language give, in their order.
LanguageStatus(buffer, language) ==
    IF buffer = NULL THEN -1
    ELSE IF language.null THEN -2
    ELSE IF ~Utf8Valid(language.elems) THEN -3
    ELSE IF ~LanguageParses(language.elems) THEN -4
    ELSE 0

\* C9: harfrust_buffer_set_language returns -1 for a null buffer, else -2 for a
\* null string, else -3 for bytes that are not UTF-8, else -4 for a string that
\* is no language tag, else 0; with a status other than 0 no buffer has changed,
\* and with 0 the language of the buffer, and nothing else, is the parsed tag.
C9_SetLanguageStatus ==
    [][ ret'.op = "harfrust_buffer_set_language"
          => \A b \in BufArgs, l \in ConfigInputs.languages :
                harfrust_buffer_set_language(b, l)
                   => /\ ret'.val = LanguageStatus(b, l)
                      /\ ret'.val # 0 => bufs' = bufs
                      /\ ret'.val = 0 =>
                            bufs' = [bufs EXCEPT ![b].language = LanguageFromStr(l.elems)]
                      /\ fonts' = fonts /\ glyphs' = glyphs /\ released' = <<>>
      ]_vars

\* The empty string was refused with -4 and the buffer still has "en".
C9_Witness ==
    /\ ret.op = "harfrust_buffer_set_language" /\ ret.h # NULL /\ ret.val = -4
    /\ bufs[ret.h].language = StrEn.elems
    /\ bufs[ret.h].info # <<>>

\* ---------------------------------------------------------------- C10

\* The status the checks of harfrust_buffer_add_str give, in their order.
AddStrStatus(buffer, text) ==
    IF buffer = NULL THEN -1
    ELSE IF text.null THEN -2
    ELSE IF ~Utf8Valid(text.elems) THEN -3
    ELSE 0

\* The status the checks of harfrust_buffer_add_utf16 give, in their order.
AddUtf16Status(buffer, text, len) ==
    IF buffer = NULL THEN -1
    ELSE IF text.null \/ len < 0 THEN -2
    ELSE 0

\* C10: harfrust_buffer_add_str returns -1 for a null buffer, else -2 for a null
\* text, else -3 for bytes that are not UTF-8, else 0; harfrust_buffer_add_utf16
\* returns -1 for a null buffer, else -2 for a null text or a negative length,
\* else 0; with a status other than 0 no object has changed.
C10_AppendStatus ==
    [][ /\ ret'.op = "harfrust_buffer_add_str"
              => \A b \in BufArgs, t \in ConfigInputs.texts :
                    harfrust_buffer_add_str(b, t)
                       => /\ ret'.val = AddStrStatus(b, t)
                          /\ ret'.val # 0 => Untouched
        /\ ret'.op = "harfrust_buffer_add_utf16"
              => \A b \in BufArgs, t \in ConfigInputs.utf16 :
                    \A len \in Counts(t) \cup {-1} :
                        harfrust_buffer_add_utf16(b, t, len)
                           => /\ ret'.val = AddUtf16Status(b, t, len)
                              /\ ret'.val # 0 => Untouched
      ]_vars

\* A text that starts well and is not UTF-8 was refused with -3 by a buffer that
\* has content, a direction and a language.
C10_Witness ==
    /\ ret.op = "harfrust_buffer_add_str" /\ ret.h # NULL /\ ret.val = -3
    /\ Len(bufs[ret.h].info) = 1
    /\ bufs[ret.h].direction = "TopToBottom"
    /\ bufs[ret.h].language # NoLanguage

\* ---------------------------------------------------------------- C11

\* The number of codepoints of a valid UTF-8 string: its bytes that are not
\* continuation bytes.
CodepointCount(str) == Cardinality({i \in 1..Len(str) : ~IsCont(str[i])})

\* C11: an add_str call that returns 0 makes the length of the buffer grow by the
\* number of codepoints of the text, not by its number of bytes, whatever the
\* buffer held before, so that appends add up; and harfrust_buffer_len on a live
\* buffer returns that length.
C11_AppendCountsCodepoints ==
    [][ /\ ret'.op = "harfrust_buffer_add_str"
              => \A b \in BufArgs, t \in ConfigInputs.texts :
                    (harfrust_buffer_add_str(b, t) /\ ret'.val = 0)
                       => /\ Len(bufs'[b].info)
                                = Len(bufs[b].info) + CodepointCount(t.elems)
                          /\ SubSeq(bufs'[b].info, 1, Len(bufs[b].info)) = bufs[b].info
        /\ (ret'.op = "harfrust_buffer_len" /\ ret'.h # NULL)
              => ret'.val = Len(bufs[ret'.h].info)
      ]_vars

\* The two bytes of U+05D0 were appended to a buffer that held "f": the length
\* is 2, not 3.
C11_Witness ==
    /\ ret.op = "harfrust_buffer_add_str" /\ ret.h # NULL /\ ret.val = 0
    /\ Len(bufs[ret.h].info) = 2
    /\ bufs[ret.h].info[1].codepoint = 102
    /\ bufs[ret.h].info[2].codepoint = 1488

\* ---------------------------------------------------------------- C12

\* C12: harfrust_buffer_clear on a live buffer leaves the same handles live,
\* releases nothing, empties the content of that buffer and touches no other
\* object; and the call that follows a clear on the same handle finds an ordinary
\* empty buffer: its length is 0, an append numbers its clusters from 0, a shape
\* call with a font that parses returns a result with no glyph, and free releases
\* the buffer once.
C12_ClearKeepsHandle ==
    [][ /\ (ret'.op = "harfrust_buffer_clear" /\ ret'.h # NULL)
              => /\ DOMAIN bufs' = DOMAIN bufs
                 /\ ret'.h \in DOMAIN bufs'
                 /\ bufs'[ret'.h].info = <<>>
                 /\ \A o \in DOMAIN bufs \ {ret'.h} : bufs'[o] = bufs[o]
                 /\ released' = <<>>
                 /\ fonts' = fonts /\ glyphs' = glyphs
        /\ (ret.op = "harfrust_buffer_clear" /\ ret.h # NULL /\ ret'.h = ret.h)
              => /\ ret.h \in DOMAIN bufs
                 /\ ret'.op = "harfrust_buffer_len" => ret'.val = 0
                 /\ (/\ ret'.op \in {"harfrust_buffer_add_str", "harfrust_buffer_add_utf16"}
                     /\ ret'.val = 0
                     /\ bufs'[ret.h].info # <<>>)
                       => bufs'[ret.h].info[1].cluster = 0
                 /\ (/\ ret'.op \in ShapeOps
                     /\ ret'.font # NULL
                     /\ FontRefNew(fonts[ret'.font].data).ok)
                       => /\ ret'.val # NULL
                          /\ glyphs'[ret'.val].infos_cache = <<>>
                 /\ ret'.op = "harfrust_buffer_free"
                       => (released' = <<Released("buffer", ret.h)>>
                              /\ ret.h \notin DOMAIN bufs')
      ]_vars

\* A buffer has been cleared while a font is live: the handle is live and the
\* buffer is empty, with nothing set.
C12_Witness ==
    /\ ret.op = "harfrust_buffer_clear" /\ ret.h # NULL
    /\ ret.h \in DOMAIN bufs
    /\ bufs[ret.h] = NewUnicodeBuffer
    /\ DOMAIN fonts # {}

\* ---------------------------------------------------------------- C13

\* What harfrust_buffer_get_script returns for a live buffer.
ScriptRead(ub) == FromBeBytes(ToBeBytes(ScriptOrUnknown(ub)))

\* C13: after harfrust_buffer_set_script with the code of a four-letter tag,
\* whatever script the buffer had, harfrust_buffer_get_script returns that same
\* code.
C13_ScriptRoundTrip ==
    [][ /\ ret'.op = "harfrust_buffer_set_script"
              => \A b \in DOMAIN bufs, t \in TextInputs.scripts :
                    harfrust_buffer_set_script(b, t) => ScriptRead(bufs'[b]) = t
        /\ (ret'.op = "harfrust_buffer_get_script" /\ ret'.h # NULL)
              => ret'.val = ScriptRead(bufs[ret'.h])
      ]_vars

\* ---------------------------------------------------------------- C14

\* C14: a harfrust_buffer_guess_segment_properties call on a live buffer leaves
\* the content of the buffer as it was, and when the call before it was a guess
\* on the same buffer it leaves direction, script and language as they were too.
C14_GuessIdempotent ==
    [][ (ret'.op = "harfrust_buffer_guess_segment_properties" /\ ret'.h # NULL)
          => /\ DOMAIN bufs' = DOMAIN bufs
             /\ bufs'[ret'.h].info = bufs[ret'.h].info
             /\ (ret.op = "harfrust_buffer_guess_segment_properties" /\ ret.h = ret'.h)
                   => bufs' = bufs
      ]_vars

\* Hebrew text with nothing set has been guessed: the script is Hebrew and the
\* direction right to left, which a second guess must keep.
C14_Witness ==
    /\ ret.op = "harfrust_buffer_guess_segment_properties" /\ ret.h # NULL
    /\ bufs[ret.h].info # <<>>
    /\ bufs[ret.h].info[1].codepoint = 1488
    /\ bufs[ret.h].script = TagHebr
    /\ bufs[ret.h].direction = "RightToLeft"
    /\ bufs[ret.h].language = NoLanguage

\* ---------------------------------------------------------------- C15

\* Unit i of u is the high half of a surrogate pair.
PairAt(u, i) == i < Len(u) /\ IsHighSurrogate(u[i]) /\ IsLowSurrogate(u[i + 1])

\* The units of u a codepoint begins at: all but the low halves of the pairs.
Starts(u) == {i \in 1..Len(u) : ~(i > 1 /\ PairAt(u, i - 1))}

\* The codepoint that begins at unit i: the supplementary codepoint of a pair,
\* U+FFFD for a surrogate without its other half, else the unit itself.
CodepointAt(u, i) ==
    IF PairAt(u, i) THEN 65536 + (u[i] - 55296) * 1024 + (u[i + 1] - 56320)
    ELSE IF u[i] >= 55296 /\ u[i] <= 57343 THEN 65533
    ELSE u[i]

\* C15: harfrust_buffer_add_utf16 with a live buffer, a text and len >= 0 returns
\* 0, keeps what the buffer held and appends one codepoint for each unit that is
\* not the low half of a pair, in order: a pair gives its supplementary
\* codepoint, a surrogate without its other half gives U+FFFD, any other unit
\* gives itself, and the cluster of each is the index, from 0, of its first unit
\* in the text of this call; len = 0 appends nothing.
C15_Utf16Clusters ==
    [][ ret'.op = "harfrust_buffer_add_utf16"
          => \A b \in DOMAIN bufs, t \in TextInputs.utf16 \ {NullPtr} :
                \A len \in 0..Len(t.elems) :
                    harfrust_buffer_add_utf16(b, t, len)
                       => LET u == SubSeq(t.elems, 1, len)
                              old == Len(bufs[b].info)
                              added == SubSeq(bufs'[b].info, old + 1, Len(bufs'[b].info))
                          IN  /\ ret'.val = 0
                              /\ SubSeq(bufs'[b].info, 1, old) = bufs[b].info
                              /\ Len(added) = Cardinality(Starts(u))
                              /\ \A k \in 1..Len(added) :
                                    /\ added[k].cluster + 1 \in Starts(u)
                                    /\ added[k].codepoint = CodepointAt(u, added[k].cluster + 1)
                                    /\ k > 1 => added[k - 1].cluster < added[k].cluster
                              /\ len = 0 => bufs' = bufs
      ]_vars

\* A surrogate pair followed by "f" was appended: U+1F600 with cluster 0 and "f"
\* with cluster 2.
C15_Witness ==
    /\ ret.op = "harfrust_buffer_add_utf16" /\ ret.h # NULL /\ ret.val = 0
    /\ bufs[ret.h].info = <<[codepoint |-> 128512, cluster |-> 0],
                            [codepoint |-> 102, cluster |-> 2]>>

\* ---------------------------------------------------------------- C16

\* The external code of each direction of the engine.
CodeTable ==
    {<<0, "Invalid">>, <<4, "LeftToRight">>, <<5, "RightToLeft">>,
     <<6, "TopToBottom">>, <<7, "BottomToTop">>}

\* C16: the codes of the directions are 0 unset, 4 left to right, 5 right to
\* left, 6 top to bottom, 7 bottom to top; a new buffer has the direction of code
\* 0; harfrust_buffer_set_direction(d) on a live buffer gives it the direction of
\* code d, whatever it had, and changes nothing else; harfrust_buffer_get_direction
\* returns the code of the direction the buffer has and changes nothing; and the
\* two conversions are inverse to each other on the five values.
C16_DirectionCodes ==
    [][ /\ ret'.op = "harfrust_buffer_new"
              => /\ ret'.val \in DOMAIN bufs'
                 /\ <<0, bufs'[ret'.val].direction>> \in CodeTable
        /\ ret'.op = "harfrust_buffer_set_direction"
              => \A b \in DOMAIN bufs, d \in DirectionCodes :
                    harfrust_buffer_set_direction(b, d)
                       => /\ <<d, bufs'[b].direction>> \in CodeTable
                          /\ bufs' = [bufs EXCEPT ![b].direction = bufs'[b].direction]
        /\ (ret'.op = "harfrust_buffer_get_direction" /\ ret'.h # NULL)
              => /\ <<ret'.val, bufs[ret'.h].direction>> \in CodeTable
                 /\ bufs' = bufs
        /\ DirectionCodes = {p[1] : p \in CodeTable}
        /\ \A d \in DirectionCodes : DirFromEngine(DirToEngine(d)) = d
        /\ \A e \in EngineDirections : DirToEngine(DirFromEngine(e)) = e
      ]_vars

\* get_direction has returned 7 for a buffer with content that was set to bottom
\* to top.
C16_Witness ==
    /\ ret.op = "harfrust_buffer_get_direction" /\ ret.h # NULL /\ ret.val = 7
    /\ bufs[ret.h].direction = "BottomToTop"
    /\ bufs[ret.h].info # <<>>

\* ---------------------------------------------------------------- C17

\* The outcome of a shape call, whichever entry point made it, when `features`
\* and `instance` are what has reached the engine: nothing happens for a null
\* handle, the buffer is released and null returned for a font that does not
\* parse, else the buffer goes to the engine and the result is a new object.
ShapeOutcome(font, buffer, features, instance) ==
    IF font = NULL \/ buffer = NULL THEN
        /\ ret'.val = NULL
        /\ Untouched /\ shaped' = NotShaped
    ELSE IF ~FontRefNew(fonts[font].data).ok THEN
        /\ ret'.val = NULL
        /\ bufs' = Drop(bufs, buffer)
        /\ released' = <<Released("buffer", buffer)>>
        /\ fonts' = fonts /\ glyphs' = glyphs /\ shaped' = NotShaped
    ELSE
        LET face == FontRefNew(fonts[font].data).face
            ub == GuessIfUnset(bufs[buffer])
        IN  /\ ret'.val # NULL
            /\ bufs' = Drop(bufs, buffer)
            /\ released' = <<Released("buffer", buffer)>>
            /\ fonts' = fonts
            /\ shaped' = EngineCall(face, instance, ub, features)
            /\ glyphs' = Put(glyphs, ret'.val,
                             GlyphWrapper(Shape(face, instance, ub, features)))

\* The first n features of the host's list, as the host wrote them.
HostFeatures(features, n) == [i \in 1..n |-> features.elems[i]]

\* The outcome of a call with a feature list and no variation: that of a call
\* without a list when the pointer is null or the count 0, else every feature of
\* the list goes to the engine unchanged.
FeaturesOutcome(font, buffer, features, num_features) ==
    IF features.null \/ num_features = 0
    THEN ShapeOutcome(font, buffer, <<>>, NoInstance)
    ELSE ShapeOutcome(font, buffer, HostFeatures(features, num_features), NoInstance)

====
